---- MODULE Spec2Model ----
(***************************************************************************)
(* JPCImporter (src/JPCImporter.py): upload of a package to a Jamf Pro     *)
(* server, retried update of the package record, rewrite of the test       *)
(* policy, optional copy of the package to a local distribution point.     *)
(*                                                                         *)
(* Text is modelled as a sequence of tokens: the separators "/" and "-"    *)
(* are tokens of their own and every other token is a run of characters    *)
(* that holds neither of them.  Python values are tagged records so that   *)
(* the integer 0, the string "0" and None stay different values.           *)
(***************************************************************************)
EXTENDS Integers, Sequences, FiniteSets, TLC

\* ---------------------------------------------------------------- bounds
MaxRuns == 2
NumInvocations == 2

\* ------------------------------------------------------- python values
\* the text of a value is a token sequence: PyStr(<<"42">>), PyInt(<<"0">>)
PyInt(s) == [t |-> "int", v |-> s]
PyStr(s) == [t |-> "str", v |-> s]
None == [t |-> "NoneType", v |-> <<"None">>]

\* str(x), also what "{}".format(x) and "%s" % x produce
str(x) == IF x.t = "str" THEN x ELSE PyStr(x.v)

\* a key that is not in a dictionary
NoKey == [t |-> "absent", v |-> <<>>]

\* ------------------------------------------------------------- os.path
RECURSIVE LastIndex(_, _, _)
LastIndex(s, tok, i) ==
    IF i = 0 THEN 0
    ELSE IF s[i] = tok THEN i ELSE LastIndex(s, tok, i - 1)

RECURSIVE FirstIndex(_, _, _)
FirstIndex(s, tok, i) ==
    IF i > Len(s) THEN 0
    ELSE IF s[i] = tok THEN i ELSE FirstIndex(s, tok, i + 1)

\* path.basename(p): what follows the last "/"
basename(p) == SubSeq(p, LastIndex(p, "/", Len(p)) + 1, Len(p))

\* pkg.split("-")[0]: what precedes the first "-", all of it when there is none
title_of(pkg) ==
    IF FirstIndex(pkg, "-", 1) = 0 THEN pkg
    ELSE SubSeq(pkg, 1, FirstIndex(pkg, "-", 1) - 1)

\* a path without its trailing separator (the root stays the root)
Norm(p) == IF Len(p) > 1 /\ p[Len(p)] = "/" THEN SubSeq(p, 1, Len(p) - 1) ELSE p

\* path.exists(p) on a file system of directories dirs and files files:
\* a path with a trailing separator names a directory only
path_exists(p, dirs, files) ==
    IF Len(p) > 0 /\ p[Len(p)] = "/" THEN Norm(p) \in dirs
    ELSE p \in dirs \cup files

\* ------------------------------------------------------ program constants
\* "if count > 10" and "sleep(20)" of the package update loop
RETRY_LIMIT == 10
RETRY_DELAY == 20

\* the sentinel upload returns when nothing was activated ("return 0")
SKIPPED == PyInt(<<"0">>)

\* ------------------------------------------------------------ the inputs
\* env["pkg_path"] as the pipeline may supply it
Paths ==
    { <<"/", "b", "/", "Foo", "-", "2.0.pkg">>,
      <<"Foo", "-", "2", "-", "1.pkg">>,
      <<"/", "b", "/", "Bar.pkg">> }

\* ~/Library/Preferences/JPCImporter.plist: unreadable, without its url key,
\* without local_path, and with local_path written with and without its
\* trailing separator
MirrorSlash == <<"/", "m", "/">>
MirrorBare == <<"/", "m">>
Prefs ==
    { [readable |-> FALSE, keys |-> {}, url |-> <<>>, local_path |-> <<>>],
      [readable |-> TRUE, keys |-> {"user", "password"}, url |-> <<>>,
       local_path |-> <<>>],
      [readable |-> TRUE, keys |-> {"url", "user", "password"}, url |-> <<"jss">>,
       local_path |-> <<>>],
      [readable |-> TRUE, keys |-> {"url", "user", "password", "local_path"},
       url |-> <<"jss">>, local_path |-> MirrorSlash],
      [readable |-> TRUE, keys |-> {"url", "user", "password", "local_path"},
       url |-> <<"jss">>, local_path |-> MirrorBare] }

\* HTTP status codes a request may come back with
Status == {200, 201, 404}

\* what the curl subprocess may produce: a non-zero exit, output that is not
\* XML, an envelope without <id>, with an empty <id>, with an identifier
CurlResults ==
    { [kind |-> "exit_nonzero", id |-> None],
      [kind |-> "malformed", id |-> None],
      [kind |-> "xml", id |-> None],
      [kind |-> "xml", id |-> PyStr(<<>>)],
      [kind |-> "xml", id |-> PyStr(<<"42">>)],
      [kind |-> "xml", id |-> PyStr(<<"0">>)] }

\* an XML document of the policy resource: the text of the elements the
\* code addresses (None when the element is missing) and the rest of the
\* document; id is the <id> child of the document's root
PolicyDoc(gid, en, pid, pname, rest) ==
    [kind |-> "xml", id |-> None, general_id |-> gid, enabled |-> en,
     pkg_id |-> pid, pkg_name |-> pname, rest |-> rest]

PolicyDocs ==
    { PolicyDoc(PyStr(<<"9">>), PyStr(<<"true">>), PyStr(<<"5">>),
                PyStr(<<"Foo", "-", "1.0.pkg">>), <<"scope1">>),
      PolicyDoc(PyStr(<<"3">>), PyStr(<<"false">>), PyStr(<<"42">>),
                PyStr(<<"Bar.pkg">>), <<"scope2">>),
      PolicyDoc(None, PyStr(<<"true">>), PyStr(<<"5">>),
                PyStr(<<"Old.pkg">>), <<"scope1">>),
      PolicyDoc(PyStr(<<"9">>), PyStr(<<"true">>), None, None, <<"scope1">>),
      [kind |-> "malformed", id |-> None, general_id |-> None, enabled |-> None,
       pkg_id |-> None, pkg_name |-> None, rest |-> <<>>] }

NoDoc == [kind |-> "none", id |-> None, general_id |-> None, enabled |-> None,
          pkg_id |-> None, pkg_name |-> None, rest |-> <<>>]

\* the answers to the policy PUT: <policy><id>..</id></policy>, with the
\* identifier 9, the identifier 0, and without <id>
PolicyPutAnswers ==
    { [NoDoc EXCEPT !.kind = "xml", !.id = i] :
        i \in {PyStr(<<"9">>), PyStr(<<"0">>), None} }

\* ------------------------------------------------------------- the state
VARIABLES
    pc,         \* where main is: "main", "upload", "check", "curl", "put_pkg",
                \* "get_policy", "put_policy", "returned", "copy_local",
                \* "summary", "done", "raised"
    run,        \* the number of this invocation of main
    env,        \* self.env: pkg_path and jpc_importer_summary_result
    prefs,      \* the preference file
    fsDirs,     \* the directories on disk
    fsFiles,    \* the files on disk
    pkg_path,   \* main's and upload's pkg_path
    server,     \* upload's server
    pkg,        \* upload's pkg
    title,      \* upload's title
    packid,     \* upload's packid
    count,      \* upload's count
    url,        \* the url of the last request
    data,       \* the body of the last PUT
    ret,        \* the last response: status_code and text
    root,       \* the policy document as it was fetched
    pol_id,     \* what upload returned
    outcome,    \* the return statement upload left by
    err,        \* the exception that ended the run
    calls,      \* the requests of this run, in order
    sleeps,     \* the sleep calls of this run
    slept,      \* the time slept in this run
    copies,     \* the copy2 calls of this run
    copy_err,   \* whether copy2 raised the IOError that copy_local catches
    \* invocations that run at the same time against one server
    r_pc,       \* where each is: "check", "curl", "put_pkg", "present", "raised"
    r_pkg,      \* the pkg of each
    r_ret,      \* the status code of each one's existence lookup
    r_saw,      \* what made the package visible when each one looked it up:
                \* the invocations whose upload was, 0 for an older package
    srv_old,    \* the package names the server held before
    srv_stored, \* the invocations whose upload the server has stored
    srv_visible \* those of them whose package the server's lookups report

rvars == <<r_pc, r_pkg, r_ret, r_saw, srv_old, srv_stored, srv_visible>>

vars == <<pc, run, env, prefs, fsDirs, fsFiles, pkg_path, server, pkg, title,
          packid, count, url, data, ret, root, pol_id, outcome, err, calls,
          sleeps, slept, copies, copy_err, rvars>>

Invocations == 1..NumInvocations

\* no concurrent invocation is under way
RaceIdle ==
    /\ r_pc = [i \in Invocations |-> "check"]
    /\ r_pkg = [i \in Invocations |-> <<>>]
    /\ r_ret = [i \in Invocations |-> 0]
    /\ r_saw = [i \in Invocations |-> {}]
    /\ srv_old = {}
    /\ srv_stored = {}
    /\ srv_visible = {}

locals == <<server, pkg, title, packid, count, url, data, ret, root, pol_id>>
history == <<calls, sleeps, slept, copies, copy_err>>
disk == <<prefs, fsDirs, fsFiles>>

NoError == [type |-> "", msg |-> <<>>]
NoSummary == [t |-> "absent", policy_id |-> None, pkg_path |-> None]
NoResponse == [status_code |-> 0, text |-> NoDoc]
NoData == [kind |-> "none", id |-> None, doc |-> NoDoc]

\* the summary an earlier processor run may have left in the environment
StaleSummary == [t |-> "dict", policy_id |-> PyStr(<<"1">>),
                 pkg_path |-> PyStr(<<"/", "b", "/", "Old.pkg">>)]

\* the distribution point: the configured directory, its Packages
\* sub-directory, and the directory local_path + "Packages/" names when
\* local_path is written without its trailing separator
MirrorDir == <<"/", "m">>
MirrorPackages == <<"/", "m", "/", "Packages">>
MirrorSibling == <<"/", "m", "Packages">>

\* the directories that may exist, given the preference file: those its
\* local_path can make copy_local look at
DirSets(pr) ==
    { d \in SUBSET ( IF "local_path" \notin pr.keys THEN {}
                     ELSE IF pr.local_path = MirrorSlash
                     THEN {MirrorDir, MirrorPackages}
                     ELSE {MirrorDir, MirrorSibling} ) :
        MirrorPackages \in d => MirrorDir \in d }

FileSets(p, dirs) ==
    SUBSET ({p} \cup { d \o <<"/">> \o basename(p) :
                          d \in dirs \cap {MirrorPackages, MirrorSibling} })

Init ==
    /\ pc = "main"
    /\ run = 1
    /\ prefs \in Prefs
    /\ fsDirs \in DirSets(prefs)
    /\ \E p \in Paths :
          /\ env \in [pkg_path : {PyStr(p), NoKey},
                      jpc_importer_summary_result : {NoSummary, StaleSummary}]
          /\ fsFiles \in FileSets(p, fsDirs)
    /\ pkg_path = None
    /\ server = <<>>
    /\ pkg = <<>>
    /\ title = <<>>
    /\ packid = None
    /\ count = 0
    /\ url = <<>>
    /\ data = NoData
    /\ ret = NoResponse
    /\ root = NoDoc
    /\ pol_id = None
    /\ outcome = ""
    /\ err = NoError
    /\ calls = <<>>
    /\ sleeps = 0
    /\ slept = 0
    /\ copies = 0
    /\ copy_err = FALSE
    /\ RaceIdle

\* the exception recorded and the run carried on as if upload had returned
Raise_carry_on(type, msg) ==
    /\ pc' = "returned"
    /\ err' = [type |-> type, msg |-> msg]

\* raise: the exception leaves main, nothing else of the state changes
Raise(type, msg) ==
    /\ pc' = "raised"
    /\ err' = [type |-> type, msg |-> msg]

\* dict.get(key): None when the key is missing
dict_get(v) == IF v = NoKey THEN None ELSE v

\* main without the del: the summary of an earlier run stays
clear_summary_kept(e) == e

\* del self.env["jpc_importer_summary_result"], when it is there
clear_summary(e) == [e EXCEPT !.jpc_importer_summary_result = NoSummary]

\* main without the test of the path
not_found_unchecked(p, dirs, files) == FALSE

\* "if not path.exists(pkg_path)"
not_found(p, dirs, files) == ~path_exists(p, dirs, files)

\* main, lines 244-251, up to the call of upload: the summary of an earlier
\* run is dropped, the package must be on disk (path.exists raises a
\* TypeError for None)
main_start ==
    /\ pc = "main"
    /\ env' = clear_summary(env)
    /\ pkg_path' = dict_get(env.pkg_path)
    /\ IF pkg_path'.t # "str"
         THEN Raise("TypeError", <<>>)
         ELSE IF not_found(pkg_path'.v, fsDirs, fsFiles)
         THEN Raise("ProcessorError", <<"Package not found: ">> \o pkg_path'.v)
         ELSE pc' = "upload" /\ err' = err
    /\ UNCHANGED <<run, disk, locals, outcome, history>>
    /\ UNCHANGED rvars

\* ---------------------------------------------------------------- upload
base_of(srv) == srv \o <<"/", "JSSResource", "/">>

Call(method, op, u) == calls' = Append(calls, [method |-> method, op |-> op, url |-> u])

\* upload, lines 98-106: load_prefs, then the names derived from the path
upload_setup ==
    /\ pc = "upload"
    /\ IF ~prefs.readable
         THEN /\ Raise("FileNotFoundError", <<>>)
              /\ UNCHANGED <<server, pkg, title>>
         ELSE IF ~({"url", "user", "password"} \subseteq prefs.keys)
         THEN /\ Raise("KeyError", <<>>)
              /\ UNCHANGED <<server, pkg, title>>
         ELSE /\ server' = prefs.url
              /\ pkg' = basename(pkg_path.v)
              /\ title' = title_of(pkg')
              /\ pc' = "check"
              /\ err' = err
    /\ UNCHANGED <<run, env, disk, pkg_path, packid, count, url, data, ret, root,
                   pol_id, outcome, history>>
    /\ UNCHANGED rvars

\* the existence lookup taking every answer but 404 for "present"
already_present_not404(status_code) == status_code # 404

\* the existence lookup taking any 2xx answer for "present"
already_present_2xx(status_code) == status_code \in {200, 201}

\* "if ret.status_code == 200" of the existence lookup
already_present(status_code) == status_code = 200

\* upload, lines 108-115: is a package of this file name known to the server
check_exists ==
    /\ pc = "check"
    /\ url' = base_of(server) \o <<"packages", "/", "name", "/">> \o pkg
    /\ Call("GET", "packages/name", url')
    /\ \E status_code \in Status :
          /\ ret' = [status_code |-> status_code, text |-> NoDoc]
          /\ IF already_present(status_code)
               THEN /\ pol_id' = SKIPPED
                    /\ outcome' = "ALREADY_PRESENT"
                    /\ pc' = "returned"
               ELSE /\ pc' = "curl"
                    /\ UNCHANGED <<pol_id, outcome>>
    /\ UNCHANGED <<run, env, disk, pkg_path, server, pkg, title, packid, count,
                   data, root, err, sleeps, slept, copies, copy_err>>
    /\ UNCHANGED rvars

\* "if packid == ''" after the upload
id_rejected(id) == id = PyStr(<<>>)

\* upload, lines 117-147: the curl POST to dbfileupload, the identifier of
\* its answer, the package record and its url
curl_upload ==
    /\ pc = "curl"
    /\ Call("POST", "dbfileupload", server \o <<"/", "dbfileupload">>)
    /\ \E out \in CurlResults :
          CASE out.kind = "exit_nonzero" ->
                 /\ Raise("CalledProcessError",
                          <<"Command ", "curl", " ">>
                              \o server \o <<"/", "dbfileupload">>
                              \o <<" returned non-zero exit status">>)
                 /\ UNCHANGED <<packid, url, data, count>>
            [] out.kind = "malformed" ->
                 /\ Raise("ParseError", <<>>)
                 /\ UNCHANGED <<packid, url, data, count>>
            [] out.kind = "xml" ->
                 /\ packid' = out.id
                 /\ IF id_rejected(packid')
                      THEN /\ Raise("ProcessorError",
                                    <<"curl failed for url :">>
                                        \o server \o <<"/", "dbfileupload">>)
                           /\ UNCHANGED <<url, data, count>>
                      ELSE /\ data' = [kind |-> "package", id |-> str(packid'),
                                       doc |-> NoDoc]
                           /\ url' = base_of(server) \o <<"packages", "/", "id", "/">>
                                         \o str(packid').v
                           /\ count' = 0
                           /\ pc' = "put_pkg"
                           /\ err' = err
    /\ UNCHANGED <<run, env, disk, pkg_path, server, pkg, title, ret, root,
                   pol_id, outcome, sleeps, slept, copies, copy_err>>
    /\ UNCHANGED rvars

\* "if ret.status_code == 201" and "if count > 10" of the update loop
update_done(status_code) == status_code = 201

\* the comparison written "count > 11": one attempt more
retries_exhausted_late(n) == n > RETRY_LIMIT + 1

\* the comparison written "count >= 10": one attempt fewer
retries_exhausted_ge(n) == n >= RETRY_LIMIT

retries_exhausted(n) == n > RETRY_LIMIT

\* upload, lines 153-165: one turn of the loop that updates the package record
update_package ==
    /\ pc = "put_pkg"
    /\ count' = count + 1
    /\ Call("PUT", "packages/id", url)
    /\ \E status_code \in Status :
          /\ ret' = [status_code |-> status_code, text |-> NoDoc]
          /\ IF update_done(status_code)
               THEN /\ pc' = "get_policy"
                    /\ UNCHANGED <<err, sleeps, slept>>
               ELSE IF retries_exhausted(count')
               THEN /\ Raise("ProcessorError",
                             <<"Package update failed with code: ",
                               ToString(status_code)>>)
                    /\ UNCHANGED <<sleeps, slept>>
               ELSE /\ sleeps' = sleeps + 1
                    /\ slept' = slept + RETRY_DELAY
                    /\ UNCHANGED <<pc, err>>
    /\ UNCHANGED <<run, env, disk, pkg_path, server, pkg, title, packid, url,
                   data, root, pol_id, outcome, copies, copy_err>>
    /\ UNCHANGED rvars

\* the policy lookup taking only a 404 for "no such policy"
policy_found_not404(status_code) == status_code # 404

\* "if ret.status_code != 200" of the policy lookup
policy_found(status_code) == status_code = 200

\* upload, lines 167-181: the lookup of the policy TEST-<title>
get_policy ==
    /\ pc = "get_policy"
    /\ url' = base_of(server) \o <<"policies", "/", "name", "/">>
                  \o <<"TEST", "-">> \o title
    /\ Call("GET", "policies/name", url')
    /\ \E status_code \in Status :
       \E text \in IF status_code = 200 THEN PolicyDocs ELSE {NoDoc} :
          /\ ret' = [status_code |-> status_code, text |-> text]
          /\ IF ~policy_found(status_code)
               THEN /\ pol_id' = SKIPPED
                    /\ outcome' = "NO_POLICY"
                    /\ pc' = "returned"
                    /\ UNCHANGED <<root, err>>
               ELSE IF text.kind # "xml"
               THEN /\ Raise("ParseError", <<>>)
                    /\ UNCHANGED <<root, pol_id, outcome>>
               ELSE /\ root' = text
                    /\ pc' = "put_policy"
                    /\ UNCHANGED <<pol_id, outcome, err>>
    /\ UNCHANGED <<run, env, disk, pkg_path, server, pkg, title, packid, count,
                   data, sleeps, slept, copies, copy_err>>
    /\ UNCHANGED rvars

\* the package id written to general/id instead of the package reference
set_package_general_id(doc, id, name) ==
    [doc EXCEPT !.general_id = str(id),
                !.enabled = PyStr(<<"false">>),
                !.pkg_name = PyStr(name)]

\* the assignments without the one to general/enabled
set_package_keep_enabled(doc, id, name) ==
    [doc EXCEPT !.pkg_id = str(id), !.pkg_name = PyStr(name)]

\* lines 183-187: the three assignments to the fetched document
set_package(doc, id, name) ==
    [doc EXCEPT !.pkg_id = str(id),
                !.enabled = PyStr(<<"false">>),
                !.pkg_name = PyStr(name)]

\* root.find(..) is None for one of the three elements assigned to
find_fails(doc) == doc.pkg_id = None \/ doc.enabled = None \/ doc.pkg_name = None

\* the policy update taking a 200 for success as well
policy_updated_2xx(status_code) == status_code \in {200, 201}

\* "if ret.status_code != 201" of the policy update
policy_updated(status_code) == status_code = 201

\* upload, lines 182-199: the document is rewritten and put back
put_policy ==
    /\ pc = "put_policy"
    /\ IF find_fails(root)
         THEN /\ Raise("AttributeError", <<>>)
              /\ UNCHANGED <<url, data, ret, pol_id, outcome, calls>>
         ELSE /\ url' = base_of(server) \o <<"policies", "/", "id", "/">>
                           \o str(root.general_id).v
              /\ data' = [kind |-> "policy", id |-> None,
                          doc |-> set_package(root, packid, pkg)]
              /\ Call("PUT", "policies/id", url')
              /\ \E status_code \in Status :
                 \E text \in IF status_code = 201
                                THEN PolicyPutAnswers ELSE {NoDoc} :
                    /\ ret' = [status_code |-> status_code, text |-> text]
                    /\ IF ~policy_updated(status_code)
                         THEN /\ Raise("ProcessorError",
                                       <<"Test policy ">> \o url'
                                           \o <<" update failed: ",
                                                ToString(status_code)>>)
                              /\ UNCHANGED <<pol_id, outcome>>
                         ELSE /\ pol_id' = text.id
                              /\ outcome' = "POLICY_ACTIVATED"
                              /\ pc' = "returned"
                              /\ err' = err
    /\ UNCHANGED <<run, env, disk, pkg_path, server, pkg, title, packid, count,
                   root, sleeps, slept, copies, copy_err>>
    /\ UNCHANGED rvars

\* -------------------------------------------------------------- the rest
\* the test written on the text of the value: str(pol_id) != "0"
activated_by_text(id) == str(id).v # <<"0">>

\* the test written "if pol_id is not None"
activated_not_none(id) == id # None

\* "if pol_id != 0"
activated(id) == id # SKIPPED

\* main, lines 253-254: upload has returned
main_returned ==
    /\ pc = "returned"
    /\ pc' = IF activated(pol_id) THEN "copy_local" ELSE "done"
    /\ UNCHANGED <<run, env, disk, pkg_path, locals, outcome, err, history>>
    /\ UNCHANGED rvars

\* copy_local without the Packages sub-directory
packages_dir_plain(local_path) == local_path

\* local_path += "Packages/"
packages_dir(local_path) == local_path \o <<"Packages", "/">>

\* whether copy_local gets as far as copy2
copy_wanted ==
    /\ "local_path" \in prefs.keys
    /\ path_exists(packages_dir(prefs.local_path), fsDirs, fsFiles)
    /\ ~path_exists(packages_dir(prefs.local_path) \o basename(pkg_path.v),
                    fsDirs, fsFiles)

\* copy_local without the except clause around copy2: the IOError leaves main
copy_local_propagates ==
    /\ pc = "copy_local"
    /\ IF copy_wanted
         THEN /\ copies' = copies + 1
              /\ \E failed \in BOOLEAN :
                    /\ copy_err' = failed
                    /\ \/ fsFiles' = fsFiles \cup
                             {packages_dir(prefs.local_path) \o basename(pkg_path.v)}
                       \/ failed /\ fsFiles' = fsFiles
                    /\ IF failed THEN Raise("IOError", <<>>)
                                 ELSE pc' = "summary" /\ err' = err
         ELSE /\ UNCHANGED <<copies, copy_err, fsFiles, err>>
              /\ pc' = "summary"
    /\ UNCHANGED <<run, env, prefs, fsDirs, pkg_path, locals, outcome,
                   calls, sleeps, slept>>
    /\ UNCHANGED rvars

\* copy_local, lines 201-240: copy2 writes the file, or raises an IOError
\* that is caught, having written the file or not
copy_local ==
    /\ pc = "copy_local"
    /\ IF copy_wanted
         THEN /\ copies' = copies + 1
              /\ \E failed \in BOOLEAN :
                    /\ copy_err' = failed
                    /\ \/ fsFiles' = fsFiles \cup
                             {packages_dir(prefs.local_path) \o basename(pkg_path.v)}
                       \/ failed /\ fsFiles' = fsFiles
         ELSE UNCHANGED <<copies, copy_err, fsFiles>>
    /\ pc' = "summary"
    /\ UNCHANGED <<run, env, prefs, fsDirs, pkg_path, locals, outcome, err,
                   calls, sleeps, slept>>
    /\ UNCHANGED rvars

\* main, lines 258-263: the summary for AutoPkg
main_summary ==
    /\ pc = "summary"
    /\ env' = [env EXCEPT !.jpc_importer_summary_result =
                  [t |-> "dict", policy_id |-> pol_id, pkg_path |-> pkg_path]]
    /\ pc' = "done"
    /\ UNCHANGED <<run, disk, pkg_path, locals, outcome, err, history>>
    /\ UNCHANGED rvars

\* the pipeline runs the processor again, with the same environment; it may
\* have set another pkg_path and built that package
reinvoke ==
    /\ pc \in {"done", "raised"}
    /\ run < MaxRuns
    /\ run' = run + 1
    /\ \E p \in Paths :
          /\ env' \in {[env EXCEPT !.pkg_path = PyStr(p)], env}
          /\ fsFiles' \in {fsFiles, fsFiles \cup {p}}
    /\ pc' = "main"
    /\ pkg_path' = None
    /\ server' = <<>>
    /\ pkg' = <<>>
    /\ title' = <<>>
    /\ packid' = None
    /\ count' = 0
    /\ url' = <<>>
    /\ data' = NoData
    /\ ret' = NoResponse
    /\ root' = NoDoc
    /\ pol_id' = None
    /\ outcome' = ""
    /\ err' = NoError
    /\ calls' = <<>>
    /\ sleeps' = 0
    /\ slept' = 0
    /\ copies' = 0
    /\ copy_err' = FALSE
    /\ UNCHANGED <<prefs, fsDirs>>
    /\ UNCHANGED rvars

Next ==
    \/ main_start
    \/ upload_setup
    \/ check_exists
    \/ curl_upload
    \/ update_package
    \/ get_policy
    \/ put_policy
    \/ main_returned
    \/ copy_local
    \/ main_summary
    \/ reinvoke

Spec == Init /\ [][Next]_vars

\* ------------------------------------------- invocations at the same time
\* Several invocations of upload, each at its existence lookup, against one
\* server.  The server stores an upload that it answers with an identifier;
\* the package shows in lookups once the server has indexed it.  A lookup is
\* answered 200 when a package of that name shows, and with another status
\* when none does.
mvars == <<pc, run, env, prefs, fsDirs, fsFiles, pkg_path, server, pkg, title,
           packid, count, url, data, ret, root, pol_id, outcome, err, calls,
           sleeps, slept, copies, copy_err>>

RaceNames == {basename(p) : p \in Paths}

RaceInit ==
    /\ pc = "main"
    /\ run = 1
    /\ prefs = [readable |-> TRUE, keys |-> {"url", "user", "password"},
                url |-> <<"jss">>, local_path |-> <<>>]
    /\ fsDirs = {}
    /\ fsFiles = Paths
    /\ env = [pkg_path |-> NoKey, jpc_importer_summary_result |-> NoSummary]
    /\ pkg_path = None
    /\ server = <<>>
    /\ pkg = <<>>
    /\ title = <<>>
    /\ packid = None
    /\ count = 0
    /\ url = <<>>
    /\ data = NoData
    /\ ret = NoResponse
    /\ root = NoDoc
    /\ pol_id = None
    /\ outcome = ""
    /\ err = NoError
    /\ calls = <<>>
    /\ sleeps = 0
    /\ slept = 0
    /\ copies = 0
    /\ copy_err = FALSE
    /\ r_pc = [i \in Invocations |-> "check"]
    /\ r_pkg \in [Invocations -> RaceNames]
    /\ r_ret = [i \in Invocations |-> 0]
    /\ r_saw = [i \in Invocations |-> {}]
    /\ srv_old \in SUBSET RaceNames
    /\ srv_stored = {}
    /\ srv_visible = {}

\* what makes a package of this name show in a lookup now
showing(name) ==
    {j \in srv_visible : r_pkg[j] = name} \cup (IF name \in srv_old THEN {0} ELSE {})

\* upload, lines 108-115, of invocation i
race_check(i) ==
    /\ r_pc[i] = "check"
    /\ r_saw' = [r_saw EXCEPT ![i] = showing(r_pkg[i])]
    /\ \E status_code \in IF showing(r_pkg[i]) # {} THEN {200} ELSE Status \ {200} :
          /\ r_ret' = [r_ret EXCEPT ![i] = status_code]
          /\ r_pc' = [r_pc EXCEPT ![i] = IF already_present(status_code)
                                         THEN "present" ELSE "curl"]
    /\ UNCHANGED <<r_pkg, srv_old, srv_stored, srv_visible, mvars>>

\* upload, lines 117-137, of invocation i
race_upload(i) ==
    /\ r_pc[i] = "curl"
    /\ \E out \in CurlResults :
          /\ srv_stored' = IF out.kind = "xml" /\ out.id.t = "str" /\ out.id.v # <<>>
                             THEN srv_stored \cup {i} ELSE srv_stored
          /\ r_pc' = [r_pc EXCEPT ![i] = IF out.kind # "xml" \/ id_rejected(out.id)
                                         THEN "raised" ELSE "put_pkg"]
    /\ UNCHANGED <<r_pkg, r_ret, r_saw, srv_old, srv_visible, mvars>>

\* the server has indexed the upload of invocation i
server_index(i) ==
    /\ i \in srv_stored \ srv_visible
    /\ srv_visible' = srv_visible \cup {i}
    /\ UNCHANGED <<r_pc, r_pkg, r_ret, r_saw, srv_old, srv_stored, mvars>>

RaceNext ==
    \E i \in Invocations :
        \/ race_check(i)
        \/ race_upload(i)
        \/ server_index(i)

SpecRace == RaceInit /\ [][RaceNext]_vars

\* =============================================================== properties
NumCalls(op) == Cardinality({i \in 1..Len(calls) : calls[i].op = op})
LastOp == IF calls = <<>> THEN "" ELSE calls[Len(calls)].op
Summary == env.jpc_importer_summary_result

ReconcileErrorRaised ==
    /\ pc = "raised"
    /\ err.type = "ProcessorError"
    /\ err.msg # <<>>
    /\ err.msg[1] = "Package update failed with code: "

\* C1: the package update is tried at most 11 times; a 201 ends the loop at
\* that attempt and leads to the policy lookup, also when it is the 11th
\* answer; while the loop goes on every answer so far was not a 201 and fewer
\* than 11 attempts were made; an 11th answer that is not a 201 (be it 200)
\* raises the update error with that answer's status code, after exactly 11
\* attempts.
C1_RetryBound ==
    /\ NumCalls("packages/id") <= 11
    /\ (LastOp = "packages/id" /\ ret.status_code = 201) => pc = "get_policy"
    /\ (LastOp = "packages/id" /\ ret.status_code # 201
            /\ NumCalls("packages/id") < 11) => pc = "put_pkg"
    /\ (LastOp = "packages/id" /\ ret.status_code # 201
            /\ NumCalls("packages/id") = 11) =>
          /\ ReconcileErrorRaised
          /\ err.msg = <<"Package update failed with code: ",
                         ToString(ret.status_code)>>
    /\ ReconcileErrorRaised =>
          /\ NumCalls("packages/id") = 11
          /\ LastOp = "packages/id"
          /\ ret.status_code # 201

\* ten answers 404 and a last answer 200: the update error after 11 attempts
C1_Witness ==
    /\ ReconcileErrorRaised
    /\ NumCalls("packages/id") = 11
    /\ ret.status_code = 200

\* the 11th attempt answered with 201: the run is at the policy lookup
C1_SucceedsOnEleventh ==
    pc = "get_policy" /\ NumCalls("packages/id") = 11 /\ ret.status_code = 201

\* C2: when the existence lookup answers 200 the run ends in ALREADY_PRESENT
\* without an error, and the existence lookup is the only request of the run:
\* no upload, no package PUT, no policy GET or PUT, no local copy, no summary.
C2_AlreadyPresent ==
    /\ (LastOp = "packages/name" /\ ret.status_code = 200) =>
          outcome = "ALREADY_PRESENT"
    /\ outcome = "ALREADY_PRESENT" =>
          /\ pc \in {"returned", "done"}
          /\ err = NoError
          /\ Len(calls) = 1
          /\ calls[1].method = "GET" /\ calls[1].op = "packages/name"
          /\ ret.status_code = 200
          /\ copies = 0
          /\ sleeps = 0
          /\ Summary = NoSummary

\* a second invocation that found the package present and is done
C2_Witness ==
    /\ run = 2
    /\ pc = "done"
    /\ outcome = "ALREADY_PRESENT"
    /\ calls[1].url = <<"jss", "/", "JSSResource", "/", "packages", "/", "name",
                        "/", "Foo", "-", "2.0.pkg">>

\* C3 (as claimed): an upload answer whose <id> is missing or empty ends the
\* run with the upload error, which names the upload url, and no package PUT
\* and no policy request follows.  The code compares the identifier with ""
\* only: a missing <id> gives None and the run goes on.
UploadAnswered ==
    /\ Len(calls) >= 2
    /\ calls[2].op = "dbfileupload"
    /\ err.type \notin {"CalledProcessError", "ParseError"} \/ Len(calls) > 2

C3_UploadIdValidated ==
    (UploadAnswered /\ packid \in {None, PyStr(<<>>)}) =>
        /\ pc = "raised"
        /\ err.type = "ProcessorError"
        /\ err.msg = <<"curl failed for url :", "jss", "/", "dbfileupload">>
        /\ Len(calls) = 2

\* C4: when the policy lookup answers anything but 200 the run ends in
\* NO_POLICY without an error, no policy PUT is made, nothing is copied and
\* the environment holds no summary.
C4_NoPolicyNotFatal ==
    /\ (LastOp = "policies/name" /\ ret.status_code # 200) =>
          outcome = "NO_POLICY"
    /\ outcome = "NO_POLICY" =>
          /\ pc \in {"returned", "done"}
          /\ err = NoError
          /\ LastOp = "policies/name"
          /\ ret.status_code # 200
          /\ NumCalls("policies/id") = 0
          /\ copies = 0
          /\ Summary = NoSummary

\* the lookup answered 201 and the run is done
C4_Witness ==
    /\ pc = "done"
    /\ outcome = "NO_POLICY"
    /\ ret.status_code = 201
    /\ NumCalls("packages/id") >= 1

\* the file name of each input path, written out
FileNameOf(p) ==
    CASE p = <<"/", "b", "/", "Foo", "-", "2.0.pkg">> -> <<"Foo", "-", "2.0.pkg">>
      [] p = <<"Foo", "-", "2", "-", "1.pkg">> -> <<"Foo", "-", "2", "-", "1.pkg">>
      [] p = <<"/", "b", "/", "Bar.pkg">> -> <<"Bar.pkg">>

\* C5: the document of the policy PUT has the package id the upload returned,
\* the file name of the package as package name, and enabled false, whatever
\* the fetched document held.
C5_PolicyMutation ==
    LastOp = "policies/id" =>
        /\ data.kind = "policy"
        /\ packid.t = "str" => data.doc.pkg_id = packid
        /\ data.doc.pkg_name = PyStr(FileNameOf(env.pkg_path.v))
        /\ data.doc.enabled = PyStr(<<"false">>)

\* the policy held package 5 and enabled true; package 42, Foo-2.0.pkg
C5_Witness ==
    /\ LastOp = "policies/id"
    /\ root.pkg_id = PyStr(<<"5">>)
    /\ root.enabled = PyStr(<<"true">>)
    /\ packid = PyStr(<<"42">>)
    /\ data.doc.pkg_name = PyStr(<<"Foo", "-", "2.0.pkg">>)

\* C6: when a run is done without an error the environment holds a summary
\* exactly if the run ended in POLICY_ACTIVATED; the summary then carries the
\* <id> of the answer to the policy PUT as policy_id and the input path as
\* pkg_path.  A summary that was in the environment before the run is gone.
C6_Summary ==
    pc = "done" =>
        /\ Summary.t = "dict" <=> outcome = "POLICY_ACTIVATED"
        /\ Summary.t # "dict" => Summary = NoSummary
        /\ Summary.t = "dict" =>
              /\ LastOp = "policies/id"
              /\ Summary.policy_id = ret.text.id
              /\ Summary.pkg_path = env.pkg_path

\* a run that activated policy 9 for /b/Foo-2.0.pkg
C6_Witness ==
    /\ pc = "done"
    /\ outcome = "POLICY_ACTIVATED"
    /\ Summary.policy_id = PyStr(<<"9">>)
    /\ Summary.pkg_path = PyStr(<<"/", "b", "/", "Foo", "-", "2.0.pkg">>)

\* the requests of the run follow one another as: existence GET, upload POST,
\* package PUTs, policy GET, policy PUT
RECURSIVE InOrder(_, _)
InOrder(ops, stage) ==
    IF ops = <<>> THEN TRUE
    ELSE LET op == Head(ops)
             next == CASE op = "packages/name" -> 1
                       [] op = "dbfileupload" -> 2
                       [] op = "packages/id" -> 3
                       [] op = "policies/name" -> 4
                       [] op = "policies/id" -> 5
         IN  /\ next = stage + 1 \/ (next = 3 /\ stage = 3)
             /\ InOrder(Tail(ops), next)

OpsOfRun == [i \in 1..Len(calls) |-> calls[i].op]

\* each request is made only after its predecessor succeeded, the identifier
\* of the upload apart
C7_OrderingButIdentifier ==
    /\ InOrder(OpsOfRun, 0)
    /\ pc = "curl" => LastOp = "packages/name" /\ ret.status_code # 200
    /\ pc = "put_pkg" /\ count = 0 => LastOp = "dbfileupload"
    /\ pc = "get_policy" => LastOp = "packages/id" /\ ret.status_code = 201
    /\ pc = "put_policy" => LastOp = "policies/name" /\ ret.status_code = 200
    /\ pc = "done" =>
          outcome \in {"ALREADY_PRESENT", "NO_POLICY", "POLICY_ACTIVATED"}

\* C7 (as claimed): the requests of a run are made in the order existence
\* GET, upload POST, package PUTs, policy GET, policy PUT, each only after
\* its predecessor succeeded: the upload after an existence answer that is
\* not 200, the first package PUT after the upload returned an identifier,
\* the policy GET after a package PUT answered 201, the policy PUT after the
\* policy GET answered 200; a run that ends without an error ends in
\* ALREADY_PRESENT, NO_POLICY or POLICY_ACTIVATED.
C7_Ordering ==
    /\ C7_OrderingButIdentifier
    /\ (pc = "put_pkg" \/ NumCalls("packages/id") > 0) =>
          packid.t = "str" /\ packid.v # <<>>

PolicyUpdateErrorRaised ==
    /\ pc = "raised"
    /\ err.type = "ProcessorError"
    /\ err.msg # <<>>
    /\ err.msg[1] = "Test policy "

\* C8: a policy PUT that is answered with anything but 201 raises the policy
\* update error at once: that PUT is the only policy PUT of the run, nothing
\* was slept for it (the run slept once per failed package PUT and no more),
\* and the run leaves no summary and copies nothing.
C8_PolicyPushFatal ==
    /\ NumCalls("policies/id") <= 1
    /\ (LastOp = "policies/id" /\ ret.status_code # 201) =>
          /\ PolicyUpdateErrorRaised
          /\ sleeps = NumCalls("packages/id") - 1
          /\ Summary = NoSummary
          /\ copies = 0
    /\ PolicyUpdateErrorRaised =>
          LastOp = "policies/id" /\ ret.status_code # 201

\* the policy PUT answered 200
C8_Witness ==
    /\ PolicyUpdateErrorRaised
    /\ ret.status_code = 200
    /\ NumCalls("policies/id") = 1

\* C9: when the input path is not on disk the run ends with the error
\* "Package not found" and has made no request and no copy.
C9_MissingArtifact ==
    (pc # "main" /\ env.pkg_path.t = "str"
        /\ env.pkg_path.v \notin fsFiles \cup fsDirs) =>
        /\ pc = "raised"
        /\ err.type = "ProcessorError"
        /\ err.msg = <<"Package not found: ">> \o env.pkg_path.v
        /\ calls = <<>>
        /\ copies = 0

\* /b/Bar.pkg is not on disk and the run has raised
C9_Witness ==
    /\ pc = "raised"
    /\ env.pkg_path = PyStr(<<"/", "b", "/", "Bar.pkg">>)
    /\ <<"/", "b", "/", "Bar.pkg">> \notin fsFiles
    /\ err.msg[1] = "Package not found: "

\* the directory copy_local copies into, for each local_path of Prefs, and
\* the copy's destination
CopyDir == IF prefs.local_path = MirrorSlash THEN MirrorPackages ELSE MirrorSibling
CopyDest == CopyDir \o <<"/">> \o FileNameOf(env.pkg_path.v)

\* what a step of copy_local does when it skips and when it copies
CopyLocalStep(skip) ==
    /\ pc' = "summary"
    /\ err' = err
    /\ fsDirs' = fsDirs
    /\ skip => copies' = copies /\ fsFiles' = fsFiles
    /\ ~skip => /\ copies' = copies + 1
                /\ fsFiles' \subseteq fsFiles \cup {CopyDest}

\* C10 (as claimed): copy_local writes nothing and raises nothing when no
\* local_path is configured, when the configured directory does not exist,
\* and when the file is at the destination already; in every other case it
\* makes one copy.
C10_CopyLocalSkipsAsClaimed ==
    [][pc = "copy_local" =>
         CopyLocalStep(\/ "local_path" \notin prefs.keys
                       \/ MirrorDir \notin fsDirs
                       \/ CopyDest \in fsFiles)]_vars

\* C10 (amended): copy_local writes nothing and raises nothing when no
\* local_path is configured, when the directory named local_path + "Packages/"
\* does not exist, and when a file of the package's name is in that directory
\* already; in every other case it makes one copy, into that directory.
C10_CopyLocalSkips ==
    [][pc = "copy_local" =>
         CopyLocalStep(\/ "local_path" \notin prefs.keys
                       \/ CopyDir \notin fsDirs
                       \/ CopyDest \in fsFiles)]_vars

\* copy_local has run without copying: the configured directory /m/ is there,
\* its Packages sub-directory is not
C10_Witness ==
    /\ pc = "summary"
    /\ copies = 0
    /\ prefs.local_path = MirrorSlash
    /\ MirrorDir \in fsDirs
    /\ MirrorPackages \notin fsDirs

\* C11: an IOError of copy2 does not end the run: the run that copied after
\* POLICY_ACTIVATED goes on without an error and, when it is done, has
\* written the summary.
C11_CopyFailureSwallowed ==
    copy_err =>
        /\ outcome = "POLICY_ACTIVATED"
        /\ copies = 1
        /\ pc \in {"summary", "done"}
        /\ err = NoError
        /\ pc = "done" =>
              /\ Summary.t = "dict"
              /\ Summary.policy_id = pol_id
              /\ Summary.pkg_path = env.pkg_path

\* copy2 raised, nothing was written to the mirror, the run is done
C11_Witness ==
    /\ copy_err
    /\ pc = "done"
    /\ CopyDest \notin fsFiles
    /\ Summary.t = "dict"

UploadErrorRaised ==
    \/ err.type = "CalledProcessError"
    \/ /\ err.type = "ProcessorError"
       /\ err.msg # <<>>
       /\ err.msg[1] = "curl failed for url :"

ReconcileError == err.type = "ProcessorError" /\ err.msg # <<>>
                    /\ err.msg[1] = "Package update failed with code: "

PolicyUpdateError == err.type = "ProcessorError" /\ err.msg # <<>>
                       /\ err.msg[1] = "Test policy "

\* the run stopped where it was: no summary, no copy, no return of upload
Aborted ==
    /\ pc = "raised"
    /\ outcome = ""
    /\ copies = 0
    /\ Summary = NoSummary
    /\ InOrder(OpsOfRun, 0)

\* C12: an error of the upload (curl's non-zero exit, an empty identifier),
\* of the package update after its last attempt, or of the policy PUT ends
\* the run there: the failed request is the last request of the run, nothing
\* is copied and no summary is written.
C12_NoRollback ==
    /\ UploadErrorRaised =>
          Aborted /\ LastOp = "dbfileupload" /\ Len(calls) = 2
    /\ ReconcileError =>
          Aborted /\ LastOp = "packages/id" /\ Len(calls) = 2 + 11
    /\ PolicyUpdateError =>
          /\ Aborted
          /\ LastOp = "policies/id"
          /\ Len(calls) = 4 + NumCalls("packages/id")

\* the policy PUT failed after the package was uploaded and updated
C12_Witness ==
    /\ PolicyUpdateError
    /\ pc = "raised"
    /\ NumCalls("dbfileupload") = 1
    /\ NumCalls("packages/id") = 3

\* the text sub occurs in the text msg
Contains(msg, sub) ==
    \E i \in 0..(Len(msg) - Len(sub)) : SubSeq(msg, i + 1, i + Len(sub)) = sub

OffendingUrl == calls[Len(calls)].url

\* the messages of the upload errors and of the policy update error name the
\* url, and the latter the status code
C13_ErrorContentButReconcile ==
    /\ UploadErrorRaised => Contains(err.msg, OffendingUrl)
    /\ PolicyUpdateError =>
          /\ Contains(err.msg, OffendingUrl)
          /\ Contains(err.msg, <<ToString(ret.status_code)>>)
    /\ ReconcileError => Contains(err.msg, <<ToString(ret.status_code)>>)

\* C13 (as claimed): the message of every error raised for a failed request
\* (upload, package update after its last attempt, policy PUT) holds the url
\* of the request and, where the request has a status code, that code.  The
\* message of the package update error holds the code and not the url.
C13_ErrorContent ==
    /\ C13_ErrorContentButReconcile
    /\ ReconcileError => Contains(err.msg, OffendingUrl)

\* the run got past main's test of the input path
PastInputCheck ==
    /\ pc # "main"
    /\ ~(pc = "raised" /\ err.type = "TypeError")
    /\ ~(pc = "raised" /\ err.type = "ProcessorError"
            /\ err.msg[1] = "Package not found: ")

\* the existence lookup is made once, and an answer other than 200 leads to
\* the upload without an error
ExistenceSingleShot ==
    /\ NumCalls("packages/name") <= 1
    /\ (LastOp = "packages/name" /\ ret.status_code # 200) =>
          pc = "curl" /\ err = NoError /\ outcome = ""

\* C14 (as claimed): every run that got past the test of the input path
\* makes exactly one existence lookup, and an answer other than 200 leads to
\* the upload, without a second lookup and without an error.  A run whose
\* preference file cannot be loaded ends before the lookup.
C14_ExistenceOnceAsClaimed ==
    /\ ExistenceSingleShot
    /\ (PastInputCheck /\ pc \in {"done", "raised"}) =>
          NumCalls("packages/name") = 1

\* C14 (amended): every run that got past the test of the input path and
\* loaded its preferences makes exactly one existence lookup, and an answer
\* other than 200 leads to the upload, without a second lookup and without
\* an error.
C14_ExistenceOnce ==
    /\ ExistenceSingleShot
    /\ (PastInputCheck /\ pc \notin {"upload", "check"}
            /\ err.type \notin {"FileNotFoundError", "KeyError"}) =>
          NumCalls("packages/name") = 1

\* the lookup answered 404 and the run is about to upload
C14_Witness ==
    /\ pc = "curl"
    /\ ret.status_code = 404
    /\ NumCalls("packages/name") = 1

\* C15: the update loop sleeps 20 after every failed attempt that another
\* attempt follows and at no other time: while the loop goes on it has slept
\* once per attempt made, after it (left by a 201 or by the error of the 11th
\* attempt) once per attempt but the last; a run sleeps at most 10 times and
\* at most 200 in all.
C15_DelayBound ==
    /\ slept = 20 * sleeps
    /\ sleeps <= 10
    /\ slept <= 200
    /\ pc = "put_pkg" => sleeps = NumCalls("packages/id")
    /\ (pc # "put_pkg" /\ NumCalls("packages/id") > 0) =>
          sleeps = NumCalls("packages/id") - 1
    /\ NumCalls("packages/id") = 0 => sleeps = 0

\* the 11th attempt failed: 11 attempts, 10 delays, 200 slept
C15_Witness ==
    /\ ReconcileError
    /\ NumCalls("packages/id") = 11
    /\ sleeps = 10
    /\ slept = 200

\* invocation i has made its upload request
Uploaded(i) == r_pc[i] \in {"put_pkg", "raised"}

\* C16: the lookup does not keep two invocations for one file name from both
\* uploading.  An invocation takes the package for present exactly when a
\* package of its name showed at its lookup, and uploads otherwise; so of
\* two invocations for one name that both uploaded, neither looked up after
\* the upload of the other had come to show.
C16_CheckThenUploadRace ==
    \A i \in Invocations :
        /\ r_pc[i] = "present" <=> (r_ret[i] # 0 /\ r_saw[i] # {})
        /\ r_pc[i] = "present" => r_ret[i] = 200
        /\ Uploaded(i) \/ r_pc[i] = "curl" => r_ret[i] # 0 /\ r_saw[i] = {}
        /\ \A j \in Invocations \ {i} :
              (r_pkg[i] = r_pkg[j] /\ Uploaded(i) /\ Uploaded(j)) =>
                  j \notin r_saw[i] /\ i \notin r_saw[j]

\* two invocations for Foo-2.0.pkg, both uploaded, both uploads stored
C16_Witness ==
    /\ r_pkg[1] = <<"Foo", "-", "2.0.pkg">>
    /\ r_pkg[2] = <<"Foo", "-", "2.0.pkg">>
    /\ r_pc[1] = "put_pkg"
    /\ r_pc[2] = "put_pkg"
    /\ {1, 2} \subseteq srv_stored

\* C17: the document of the policy PUT is the fetched document but for the
\* package id, the package name and enabled: general/id and all the rest are
\* as fetched; the PUT goes to policies/id/<general/id of that document>.
C17_PolicyFrame ==
    LastOp = "policies/id" =>
        /\ data.doc = [root EXCEPT !.pkg_id = data.doc.pkg_id,
                                   !.pkg_name = data.doc.pkg_name,
                                   !.enabled = data.doc.enabled]
        /\ data.doc.general_id = root.general_id
        /\ data.doc.rest = root.rest
        /\ calls[Len(calls)].method = "PUT"
        /\ calls[Len(calls)].url = url
        /\ root.general_id.t = "str" =>
              url = <<"jss", "/", "JSSResource", "/", "policies", "/", "id", "/">>
                      \o root.general_id.v

\* policy 3 with scope2 was fetched and put back to policies/id/3
C17_Witness ==
    /\ LastOp = "policies/id"
    /\ root.general_id = PyStr(<<"3">>)
    /\ data.doc.rest = <<"scope2">>
    /\ data.doc.pkg_id # root.pkg_id
    /\ url[Len(url)] = "3"

\* C18: what upload returns after the policy PUT succeeded is never the
\* value main takes for a skip, whatever <id> the answer held (9, 0, none):
\* such a run goes through copy_local and, when done, has its summary.
C18_SentinelDistinct ==
    outcome = "POLICY_ACTIVATED" =>
        /\ pol_id = ret.text.id
        /\ pol_id # SKIPPED
        /\ pc \in {"returned", "copy_local", "summary", "done"}
        /\ pc = "done" => Summary.t = "dict" /\ Summary.policy_id = ret.text.id

\* the policy PUT was answered with <id>0</id>: the run is done, with summary
C18_Witness ==
    /\ outcome = "POLICY_ACTIVATED"
    /\ pc = "done"
    /\ ret.text.id = PyStr(<<"0">>)
    /\ Summary.policy_id = PyStr(<<"0">>)

Terminal == pc \in {"done", "raised"}

\* the steps a run may still take, at most
StepsLeft ==
    CASE pc = "main" -> 20
      [] pc = "upload" -> 19
      [] pc = "check" -> 18
      [] pc = "curl" -> 17
      [] pc = "put_pkg" -> 16 - NumCalls("packages/id")
      [] pc = "get_policy" -> 5
      [] pc = "put_policy" -> 4
      [] pc = "returned" -> 3
      [] pc = "copy_local" -> 2
      [] pc = "summary" -> 1
      [] Terminal -> 0

\* C19: a run makes at most 1 existence GET, 1 upload, 11 package PUTs, 1
\* policy GET and 1 policy PUT, and it ends whatever the answers are: a run
\* that has not ended can take a step, and every step of a run brings it
\* nearer to its end.
C19_Termination ==
    /\ [](/\ NumCalls("packages/name") <= 1
          /\ NumCalls("dbfileupload") <= 1
          /\ NumCalls("packages/id") <= 11
          /\ NumCalls("policies/name") <= 1
          /\ NumCalls("policies/id") <= 1
          /\ StepsLeft >= 0
          /\ ~Terminal => ENABLED Next)
    /\ [][run' = run => StepsLeft' < StepsLeft]_vars

\* a run that made all 15 requests and is done
C19_Witness ==
    /\ pc = "done"
    /\ Len(calls) = 15
    /\ NumCalls("packages/id") = 11

\* C20: copy_local is entered exactly by a run whose upload returned from
\* POLICY_ACTIVATED: a run in or just past copy_local, or one that copied,
\* ended in POLICY_ACTIVATED; main goes from the return of upload to
\* copy_local when the outcome is POLICY_ACTIVATED and to its end otherwise,
\* also for NO_POLICY with a mirror directory that is there.
C20_CopyOnlyAfterActivation ==
    /\ []((pc \in {"copy_local", "summary"} \/ copies > 0 \/ copy_err) =>
            outcome = "POLICY_ACTIVATED")
    /\ [][/\ pc = "returned" =>
               /\ pc' = "copy_local" <=> outcome = "POLICY_ACTIVATED"
               /\ pc' = "done" <=> outcome # "POLICY_ACTIVATED"
          /\ (pc' = "copy_local" /\ pc # "copy_local") => pc = "returned"]_vars

\* a run that found no policy is done and has copied nothing, although the
\* mirror's Packages directory is there and does not hold the package
C20_Witness ==
    /\ pc = "done"
    /\ outcome = "NO_POLICY"
    /\ prefs.local_path = MirrorSlash
    /\ MirrorPackages \in fsDirs
    /\ CopyDest \notin fsFiles
    /\ copies = 0
====
